---- MODULE Spec2Model ----
(***************************************************************************)
(* OptimizerBase (videoanalyst/optim/optimizer/optimizer_base.py): the     *)
(* configuration-driven wrapper around an underlying optimizer.  Python    *)
(* dicts are functions whose DOMAIN is the key set; object references are  *)
(* strings, None included.                                                 *)
(***************************************************************************)
EXTENDS Integers, Sequences, FiniteSets, TLC

VARIABLES
    instances,              \* the wrapper objects constructed so far
    default_hyper_params,   \* the class attribute: ONE dict object
    _hyper_params,          \* per instance: which dict object it refers to
    _state,                 \* per instance: self._state
    _model,                 \* per instance: self._model
    _optimizer,             \* per instance: self._optimizer
    last                    \* the last call: operation, arguments, outcome

vars == <<instances, default_hyper_params, _hyper_params, _state, _model,
          _optimizer, last>>

-----------------------------------------------------------------------------
(* Bounds of the model *)
NumInstances == 2       \* wrapper objects that may be constructed
MaxHpsLen == 2          \* keys of a dict handed to set_hps
MaxProgress == 1        \* epoch and iteration arguments of schedule range over 0..MaxProgress

-----------------------------------------------------------------------------
(* Values *)
None == "None"
Instances == 1..NumInstances
Models == {"model_a", "model_b"}
OptimizerRef == "optimizer"

DefaultKeys == {"lr_policy", "lr_multiplier"}
UnknownKeys == {"momentum"}
AllKeys == DefaultKeys \cup UnknownKeys

\* the config lists a caller gives: the empty list and two non-empty ones
CfgLists == {<<>>, <<"cfg_a">>, <<"cfg_a", "cfg_b">>}

\* a dict given to set_hps, in its iteration order: <<key, value>> pairs, keys distinct
\* (the value under an unknown key is never read: one value stands for all)
HpsItems == (DefaultKeys \X CfgLists) \cup (UnknownKeys \X {<<>>})
HpsInputs ==
    {h \in UNION {[1..n -> HpsItems] : n \in 0..MaxHpsLen} :
        \A i, j \in 1..Len(h) : i # j => h[i][1] # h[j][1]}

EmptyDict == <<>>

\* d[k] = v
DictSet(d, k, v) == [x \in (DOMAIN d) \cup {k} |-> IF x = k THEN v ELSE d[x]]

HpsKeys(hps) == {hps[i][1] : i \in 1..Len(hps)}

NoCall(op, self, args) ==
    [op |-> op, self |-> self, args |-> args, raised |-> "none", ret |-> EmptyDict,
     calls |-> <<>>]

-----------------------------------------------------------------------------
(* External collaborators: lr_policy / lr_multiply helpers, nn.Module *)

build_lr_policy(cfg) == [kind |-> "lr_policy", cfg |-> cfg]

build_lr_multiplier(cfg) == [kind |-> "lr_multiplier", cfg |-> cfg]

\* the policy: a function of (epoch, iteration) to a learning rate
get_lr(policy, epoch, iteration) ==
    Len(policy.cfg) + (MaxProgress + 1) * epoch + iteration

\* the calls the wrapper makes on its collaborators, as the optimizer sees them
schedule_lr(optimizer, lr) == [fn |-> "schedule_lr", optimizer |-> optimizer, lr |-> lr]

multiply_lr(multiplier, optimizer) ==
    [fn |-> "multiply_lr", optimizer |-> optimizer, multiplier |-> multiplier]

OptimizerCall(name, optimizer) == [fn |-> name, optimizer |-> optimizer]

\* what the underlying optimizer's state_dict() returns
OptimizerStateDict(optimizer) == [state_dict_of |-> optimizer]

parameters(model) == [kind |-> "parameters", model |-> model, cfg |-> <<>>]

divide_into_param_groups(multiplier, model) ==
    [kind |-> "param_groups", model |-> model, cfg |-> multiplier.cfg]

-----------------------------------------------------------------------------
(* The class attribute and the constructor *)

DefaultHyperParams == [k \in DefaultKeys |-> <<>>]

\* return self._hyper_params: the dict object the reference names
get_hps(self) ==
    IF _hyper_params[self] = "default_hyper_params" THEN default_hyper_params ELSE EmptyDict

Init ==
    /\ instances = {1}
    /\ default_hyper_params = DefaultHyperParams
    /\ _hyper_params = [i \in Instances |-> IF i = 1 THEN "default_hyper_params" ELSE None]
    /\ _state = [i \in Instances |-> EmptyDict]
    /\ _model = [i \in Instances |-> None]
    /\ _optimizer = [i \in Instances |-> None]
    /\ last = NoCall("__init__", 1, <<>>)

-----------------------------------------------------------------------------
(* __init__ of a further instance:                                        *)
(* self._hyper_params = self.default_hyper_params is the reference, no copy *)
__init__(self) ==
    /\ self \notin instances
    /\ instances' = instances \cup {self}
    /\ _hyper_params' = [_hyper_params EXCEPT ![self] = "default_hyper_params"]
    /\ _state' = [_state EXCEPT ![self] = EmptyDict]
    /\ _model' = [_model EXCEPT ![self] = None]
    /\ _optimizer' = [_optimizer EXCEPT ![self] = None]
    /\ last' = NoCall("__init__", self, <<>>)
    /\ UNCHANGED default_hyper_params

get_hps_call(self) ==
    /\ self \in instances
    /\ last' = [NoCall("get_hps", self, <<>>) EXCEPT !.ret = get_hps(self)]
    /\ UNCHANGED <<instances, default_hyper_params, _hyper_params, _state, _model,
                   _optimizer>>

-----------------------------------------------------------------------------
(* set_hps: the loop over the keys of hps, from its i-th key on *)
\* mutant: the dict is rebound to the given one (self._hyper_params = hps)
set_hps_rebind(hp, hps, i) ==
    IF \E j \in i..Len(hps) : hps[j][1] \notin DOMAIN hp
    THEN [hp |-> hp, raised |-> "KeyError"]
    ELSE [hp |-> [k \in {hps[j][1] : j \in i..Len(hps)} |->
                    hps[CHOOSE j \in i..Len(hps) : hps[j][1] = k][2]],
          raised |-> "none"]

RECURSIVE set_hps_loop(_, _, _)
set_hps_loop(hp, hps, i) ==
    IF i > Len(hps) THEN [hp |-> hp, raised |-> "none"]
    ELSE IF hps[i][1] \notin DOMAIN hp THEN [hp |-> hp, raised |-> "KeyError"]
    ELSE set_hps_loop(DictSet(hp, hps[i][1], hps[i][2]), hps, i + 1)

set_hps(self, hps) ==
    /\ self \in instances
    /\ LET r == set_hps_loop(get_hps(self), hps, 1) IN
        /\ default_hyper_params' = r.hp
        /\ last' = [NoCall("set_hps", self, hps) EXCEPT !.raised = r.raised]
    /\ UNCHANGED <<instances, _hyper_params, _state, _model, _optimizer>>

-----------------------------------------------------------------------------
(* update_params: the new self._state *)
\* mutant: the multiplier branch is an elif of the policy branch
update_params_state_elif(hp, st) ==
    IF Len(hp["lr_policy"]) > 0
    THEN DictSet(st, "lr_policy", build_lr_policy(hp["lr_policy"]))
    ELSE IF Len(hp["lr_multiplier"]) > 0
    THEN DictSet(st, "lr_multiplier", build_lr_multiplier(hp["lr_multiplier"]))
    ELSE st

update_params_state(hp, st) ==
    LET st1 == IF Len(hp["lr_policy"]) > 0
               THEN DictSet(st, "lr_policy", build_lr_policy(hp["lr_policy"]))
               ELSE st
    IN  IF Len(hp["lr_multiplier"]) > 0
        THEN DictSet(st1, "lr_multiplier", build_lr_multiplier(hp["lr_multiplier"]))
        ELSE st1

update_params(self) ==
    /\ self \in instances
    /\ _state' = [_state EXCEPT ![self] = update_params_state(get_hps(self), _state[self])]
    /\ last' = NoCall("update_params", self, <<>>)
    /\ UNCHANGED <<instances, default_hyper_params, _hyper_params, _model, _optimizer>>

set_model(self, model) ==
    /\ self \in instances
    /\ _model' = [_model EXCEPT ![self] = model]
    /\ last' = NoCall("set_model", self, <<model>>)
    /\ UNCHANGED <<instances, default_hyper_params, _hyper_params, _state, _optimizer>>

-----------------------------------------------------------------------------
(* build_optimizer: a method call on None is an AttributeError *)
\* mutant: the multiplier is looked up under the wrong key, so never found
build_optimizer_result_no_groups(st, model) ==
    IF model = None THEN [raised |-> "AttributeError", state |-> st]
    ELSE [raised |-> "none", state |-> DictSet(st, "params", parameters(model))]

build_optimizer_result(st, model) ==
    IF model = None THEN [raised |-> "AttributeError", state |-> st]
    ELSE IF "lr_multiplier" \in DOMAIN st
    THEN [raised |-> "none",
          state |-> DictSet(st, "params", divide_into_param_groups(st["lr_multiplier"], model))]
    ELSE [raised |-> "none", state |-> DictSet(st, "params", parameters(model))]

build_optimizer(self) ==
    /\ self \in instances
    /\ LET r == build_optimizer_result(_state[self], _model[self]) IN
        /\ _state' = [_state EXCEPT ![self] = r.state]
        /\ last' = [NoCall("build_optimizer", self, <<>>) EXCEPT !.raised = r.raised]
    /\ UNCHANGED <<instances, default_hyper_params, _hyper_params, _model, _optimizer>>

\* a sub-class or the trainer attaches the externally constructed optimizer
attach_optimizer(self) ==
    /\ self \in instances
    /\ _optimizer[self] = None
    /\ _optimizer' = [_optimizer EXCEPT ![self] = OptimizerRef]
    /\ last' = NoCall("attach_optimizer", self, <<>>)
    /\ UNCHANGED <<instances, default_hyper_params, _hyper_params, _state, _model>>

-----------------------------------------------------------------------------
(* zero_grad, step, state_dict: self._optimizer.<name>() *)
\* mutant: the call is skipped when no optimizer is attached
zero_grad_result_guarded(optimizer) ==
    IF optimizer = None THEN [raised |-> "none", calls |-> <<>>, ret |-> EmptyDict]
    ELSE [raised |-> "none", calls |-> <<OptimizerCall("zero_grad", optimizer)>>,
          ret |-> EmptyDict]

zero_grad_result(optimizer) ==
    IF optimizer = None THEN [raised |-> "AttributeError", calls |-> <<>>, ret |-> EmptyDict]
    ELSE [raised |-> "none", calls |-> <<OptimizerCall("zero_grad", optimizer)>>,
          ret |-> EmptyDict]

\* mutant: step forwards to zero_grad
step_result_zero_grad(optimizer) ==
    IF optimizer = None THEN [raised |-> "AttributeError", calls |-> <<>>, ret |-> EmptyDict]
    ELSE [raised |-> "none", calls |-> <<OptimizerCall("zero_grad", optimizer)>>,
          ret |-> EmptyDict]

step_result(optimizer) ==
    IF optimizer = None THEN [raised |-> "AttributeError", calls |-> <<>>, ret |-> EmptyDict]
    ELSE [raised |-> "none", calls |-> <<OptimizerCall("step", optimizer)>>,
          ret |-> EmptyDict]

state_dict_result(optimizer) ==
    IF optimizer = None THEN [raised |-> "AttributeError", calls |-> <<>>, ret |-> EmptyDict]
    ELSE [raised |-> "none", calls |-> <<OptimizerCall("state_dict", optimizer)>>,
          ret |-> OptimizerStateDict(optimizer)]

Delegated(self, name, r) ==
    /\ self \in instances
    /\ last' = [NoCall(name, self, <<>>) EXCEPT
                    !.raised = r.raised, !.calls = r.calls, !.ret = r.ret]
    /\ UNCHANGED <<instances, default_hyper_params, _hyper_params, _state, _model,
                   _optimizer>>

zero_grad(self) == Delegated(self, "zero_grad", zero_grad_result(_optimizer[self]))

step(self) == Delegated(self, "step", step_result(_optimizer[self]))

state_dict(self) == Delegated(self, "state_dict", state_dict_result(_optimizer[self]))

-----------------------------------------------------------------------------
(* schedule: schedule_lr and multiply_lr read the optimizer's param_groups, *)
(* an AttributeError on None                                               *)
\* mutant: the report always carries "lr", 0 when no policy is held
schedule_result_always_lr(st, optimizer, epoch, iteration) ==
    LET has_policy == "lr_policy" \in DOMAIN st
        has_multiplier == "lr_multiplier" \in DOMAIN st
        lr == IF has_policy THEN get_lr(st["lr_policy"], epoch, iteration) ELSE 0
        calls1 == IF has_policy THEN <<schedule_lr(optimizer, lr)>> ELSE <<>>
        calls2 == IF has_multiplier
                  THEN Append(calls1, multiply_lr(st["lr_multiplier"], optimizer))
                  ELSE calls1
    IN  IF optimizer = None /\ (has_policy \/ has_multiplier)
        THEN [raised |-> "AttributeError", calls |-> <<>>, ret |-> EmptyDict]
        ELSE [raised |-> "none", calls |-> calls2, ret |-> DictSet(EmptyDict, "lr", lr)]

\* mutant: the multiplier is applied before the policy's learning rate
schedule_result_multiplier_first(st, optimizer, epoch, iteration) ==
    LET has_policy == "lr_policy" \in DOMAIN st
        has_multiplier == "lr_multiplier" \in DOMAIN st
        lr == get_lr(st["lr_policy"], epoch, iteration)
        calls1 == IF has_multiplier THEN <<multiply_lr(st["lr_multiplier"], optimizer)>>
                  ELSE <<>>
        schedule_info == IF has_policy THEN DictSet(EmptyDict, "lr", lr) ELSE EmptyDict
        calls2 == IF has_policy THEN Append(calls1, schedule_lr(optimizer, lr)) ELSE calls1
    IN  IF optimizer = None /\ (has_policy \/ has_multiplier)
        THEN [raised |-> "AttributeError", calls |-> <<>>, ret |-> EmptyDict]
        ELSE [raised |-> "none", calls |-> calls2, ret |-> schedule_info]

schedule_result(st, optimizer, epoch, iteration) ==
    LET has_policy == "lr_policy" \in DOMAIN st
        has_multiplier == "lr_multiplier" \in DOMAIN st
        lr == get_lr(st["lr_policy"], epoch, iteration)
        calls1 == IF has_policy THEN <<schedule_lr(optimizer, lr)>> ELSE <<>>
        schedule_info == IF has_policy THEN DictSet(EmptyDict, "lr", lr) ELSE EmptyDict
        calls2 == IF has_multiplier
                  THEN Append(calls1, multiply_lr(st["lr_multiplier"], optimizer))
                  ELSE calls1
    IN  IF optimizer = None /\ (has_policy \/ has_multiplier)
        THEN [raised |-> "AttributeError", calls |-> <<>>, ret |-> EmptyDict]
        ELSE [raised |-> "none", calls |-> calls2, ret |-> schedule_info]

schedule(self, epoch, iteration) ==
    /\ self \in instances
    /\ LET r == schedule_result(_state[self], _optimizer[self], epoch, iteration) IN
        last' = [NoCall("schedule", self, <<epoch, iteration>>) EXCEPT
                    !.raised = r.raised, !.calls = r.calls, !.ret = r.ret]
    /\ UNCHANGED <<instances, default_hyper_params, _hyper_params, _state, _model,
                   _optimizer>>

-------------------------------------------------------------------
(* One wrapper and every operation on it *)
Wrapper == 1

Next ==
    \/ get_hps_call(Wrapper)
    \/ \E hps \in HpsInputs : set_hps(Wrapper, hps)
    \/ update_params(Wrapper)
    \/ \E model \in Models : set_model(Wrapper, model)
    \/ build_optimizer(Wrapper)
    \/ attach_optimizer(Wrapper)
    \/ zero_grad(Wrapper)
    \/ step(Wrapper)
    \/ state_dict(Wrapper)
    \/ \E epoch, iteration \in 0..MaxProgress : schedule(Wrapper, epoch, iteration)

Spec == Init /\ [][Next]_vars

(* Several wrappers of the class: construction and the hyper-parameter calls *)
NextShared ==
    \E self \in Instances :
        \/ __init__(self)
        \/ get_hps_call(self)
        \/ \E hps \in HpsInputs : set_hps(self, hps)

SpecShared == Init /\ [][NextShared]_vars

-----------------------------------------------------------------------------
(* Properties *)

hp == default_hyper_params
st == _state[Wrapper]
Completed == last.raised = "none"
HasUnknownKey(hps) == \E i \in 1..Len(hps) : hps[i][1] \notin DefaultKeys

\* C1: a set_hps whose dict has a key that is not a recognized one raises an error and
\* leaves the hyper-parameter mapping as it was before the call, recognized keys that
\* come before the unknown one included.
C1_UnknownKeyLeavesHpsUnchanged ==
    [][(last'.op = "set_hps" /\ HasUnknownKey(last'.args))
        => (last'.raised = "KeyError" /\ get_hps(Wrapper)' = get_hps(Wrapper))]_vars

\* C2: what get_hps returns for an instance changes only by a set_hps call on that
\* instance; any other step (the construction of another instance, a set_hps on another
\* instance) leaves it and the class-level defaults unchanged.
C2_HpsChangeOnlyByOwnSetter ==
    [][\A i \in instances :
        ~(last'.op = "set_hps" /\ last'.self = i)
            => (get_hps(i)' = get_hps(i) /\ default_hyper_params' = default_hyper_params)]_vars

\* C3: after an update_params called while lr_policy (lr_multiplier) is an empty list
\* the internal state has no "lr_policy" ("lr_multiplier") key, whatever came before.
C3_EmptyCfgLeavesNoKey ==
    last.op = "update_params" =>
        \A k \in DefaultKeys : Len(get_hps(last.self)[k]) = 0 => k \notin DOMAIN _state[last.self]

C5_SetHpsUpdates ==
    /\ DOMAIN hp = DefaultKeys
    /\ [][/\ DOMAIN hp' = DefaultKeys
          /\ (last'.op = "set_hps" /\ ~HasUnknownKey(last'.args)) =>
                LET hps == last'.args IN
                /\ last'.raised = "none"
                /\ \A i \in 1..Len(hps) : get_hps(Wrapper)'[hps[i][1]] = hps[i][2]
                /\ \A k \in DOMAIN hp \ HpsKeys(hps) : get_hps(Wrapper)'[k] = hp[k]
                /\ DOMAIN get_hps(Wrapper)' = DOMAIN hp]_vars

C5_Witness ==
    /\ last.op = "set_hps"
    /\ Completed
    /\ HpsKeys(last.args) = {"lr_policy"}
    /\ hp["lr_policy"] = <<"cfg_a", "cfg_b">>
    /\ hp["lr_multiplier"] = <<"cfg_a">>

\* C6: schedule returns an empty report whenever the state holds neither a policy nor a
\* multiplier; the state holds one only once update_params has run with the
\* corresponding config non-empty, whatever set_hps has set since.
C6_NothingHeldEmptyReport ==
    /\ [](last.op = "schedule" /\ DOMAIN st \cap DefaultKeys = {}
            => (Completed /\ last.ret = EmptyDict /\ last.calls = <<>>))
    /\ [][\A k \in DefaultKeys :
            (k \in DOMAIN st' /\ k \notin DOMAIN st)
                => (last'.op = "update_params" /\ Len(hp[k]) > 0)]_vars

C6_Witness ==
    /\ last.op = "schedule"
    /\ DOMAIN st \cap DefaultKeys = {}
    /\ hp["lr_policy"] # <<>>
    /\ hp["lr_multiplier"] # <<>>
    /\ _optimizer[Wrapper] # None
    /\ last.ret = EmptyDict

\* what one completed schedule call is to do to the underlying optimizer
ExpectedCalls ==
    LET optimizer == _optimizer[Wrapper] IN
    (IF "lr_policy" \in DOMAIN st
     THEN <<schedule_lr(optimizer, get_lr(st["lr_policy"], last.args[1], last.args[2]))>>
     ELSE <<>>)
    \o (IF "lr_multiplier" \in DOMAIN st
        THEN <<multiply_lr(st["lr_multiplier"], optimizer)>>
        ELSE <<>>)

\* C7 (as claimed): a schedule call applies the policy's learning rate for its (epoch,
\* iteration) and then the multiplier, each at most once; the report has "lr", equal to
\* the applied rate, exactly when a policy was applied, and is non-empty whenever a
\* multiplier was applied.
C7_ReportNonEmptyWithMultiplier ==
    (last.op = "schedule" /\ Completed) =>
        /\ last.calls = ExpectedCalls
        /\ "lr" \in DOMAIN last.ret <=> "lr_policy" \in DOMAIN st
        /\ "lr" \in DOMAIN last.ret => last.ret["lr"] = last.calls[1].lr
        /\ "lr_multiplier" \in DOMAIN st => last.ret # EmptyDict

\* C7 (amended): as claimed, but the report has no entry other than "lr": a call that
\* applied only a multiplier returns the empty report.
C7_ScheduleAppliesPolicyThenMultiplier ==
    (last.op = "schedule" /\ Completed) =>
        /\ last.calls = ExpectedCalls
        /\ DOMAIN last.ret = (IF "lr_policy" \in DOMAIN st THEN {"lr"} ELSE {})
        /\ "lr" \in DOMAIN last.ret => last.ret["lr"] = last.calls[1].lr

C7_Witness ==
    /\ last.op = "schedule"
    /\ Completed
    /\ Len(last.calls) = 2
    /\ last.args = <<1, 0>>
    /\ last.ret["lr"] = get_lr(st["lr_policy"], 1, 0)

\* C8: after build_optimizer state["params"] is the multiplier's grouping of the
\* registered model if the state holds a multiplier and the model's full parameter set
\* otherwise, whatever lr_multiplier is configured; no other call changes it.
C8_ParamsFromStateMultiplier ==
    /\ []((last.op = "build_optimizer" /\ Completed) =>
            /\ "params" \in DOMAIN st
            /\ st["params"] = (IF "lr_multiplier" \in DOMAIN st
                               THEN divide_into_param_groups(st["lr_multiplier"], _model[Wrapper])
                               ELSE parameters(_model[Wrapper])))
    /\ [][~(last'.op = "build_optimizer" /\ last'.raised = "none") =>
            /\ "params" \in DOMAIN st' <=> "params" \in DOMAIN st
            /\ "params" \in DOMAIN st => st'["params"] = st["params"]]_vars

C8_Witness ==
    /\ last.op = "build_optimizer"
    /\ Completed
    /\ hp["lr_multiplier"] # <<>>
    /\ "lr_multiplier" \notin DOMAIN st
    /\ st["params"] = parameters("model_b")

\* C9: update_params stores, for each of lr_policy and lr_multiplier whose config list
\* is non-empty, the object built from the current config under that name; an entry
\* whose config is empty, state["params"] and the hyper-parameters are left as they were.
C9_UpdateParamsStores ==
    [][last'.op = "update_params" =>
        /\ \A k \in DefaultKeys :
            IF Len(hp[k]) > 0
            THEN k \in DOMAIN st' /\ st'[k] = [kind |-> k, cfg |-> hp[k]]
            ELSE /\ k \in DOMAIN st' <=> k \in DOMAIN st
                 /\ k \in DOMAIN st => st'[k] = st[k]
        /\ "params" \in DOMAIN st' <=> "params" \in DOMAIN st
        /\ "params" \in DOMAIN st => st'["params"] = st["params"]
        /\ hp' = hp]_vars

C9_Witness ==
    /\ last.op = "update_params"
    /\ hp["lr_policy"] = <<"cfg_a", "cfg_b">>
    /\ hp["lr_multiplier"] = <<>>
    /\ "params" \in DOMAIN st
    /\ "lr_policy" \in DOMAIN st /\ st["lr_policy"].cfg = hp["lr_policy"]
    /\ "lr_multiplier" \in DOMAIN st /\ st["lr_multiplier"].cfg = <<"cfg_a">>

\* C10: zero_grad, step and state_dict make exactly one call, of the same name, on the
\* underlying optimizer (state_dict returns its result) and change nothing of the
\* wrapper; schedule changes neither the hyper-parameters, the state nor the model.
C10_PureDelegation ==
    [][/\ last'.op \in {"zero_grad", "step", "state_dict", "schedule"} =>
            /\ hp' = hp
            /\ _hyper_params' = _hyper_params
            /\ _state' = _state
            /\ _model' = _model
       /\ last'.op \in {"zero_grad", "step", "state_dict"} =>
            /\ _optimizer' = _optimizer
            /\ _optimizer[Wrapper] # None =>
                /\ last'.calls = <<OptimizerCall(last'.op, _optimizer[Wrapper])>>
                /\ last'.ret = (IF last'.op = "state_dict"
                                THEN OptimizerStateDict(_optimizer[Wrapper])
                                ELSE EmptyDict)]_vars

C10_Witness ==
    /\ last.op = "state_dict"
    /\ Completed
    /\ last.ret = OptimizerStateDict(OptimizerRef)
    /\ last.calls = <<OptimizerCall("state_dict", OptimizerRef)>>

====
